---- MODULE Spec2Model ----
(***************************************************************************)
(* FromJsonObjectSchema (awkward/io/json.h): the schema-driven decode      *)
(* interpreter.  The interpreter never reads JSON itself; an external      *)
(* token-driven driver calls its navigation, lookup, write, counter and    *)
(* output operations.  Each operation of the class is one action below;    *)
(* the driver's choice of operation and arguments is the nondeterminism.   *)
(*                                                                         *)
(* Conventions.  Vectors the code indexes from 0 are functions on 0..n-1.  *)
(* A GrowableBuffer's contents are a sequence (element k of the code is    *)
(* element k+1 of the sequence).  Characters are their ASCII codes, 0 is   *)
(* the C string terminator.  A double is written as its value times 100    *)
(* (250 is 2.5); the interpreter only copies doubles.                      *)
(***************************************************************************)
EXTENDS Integers, Sequences, FiniteSets, TLC

VARIABLES
  instructions_,        \* json.h:276  flat program, 4 int64 per instruction
  characters_,          \* json.h:277  concatenated symbol characters
  string_offsets_,      \* json.h:278  symbol i is chars[offsets[i] .. offsets[i+1])
  output_names_,        \* json.h:280
  output_dtypes_,       \* json.h:281
  output_which_,        \* json.h:282
  buffers_uint8_,       \* json.h:283
  buffers_int64_,       \* json.h:284
  buffers_float64_,     \* json.h:285
  current_instruction_, \* json.h:287
  instruction_stack_,   \* json.h:288
  current_stack_depth_, \* json.h:289
  counters_,            \* json.h:290
  length_,              \* json.h:292
  op,                   \* observer: name of the last operation called
  arg,                  \* observer: its arguments
  ret,                  \* observer: what it returned (or wrote to caller memory)
  round_trip,           \* observer: <<"pushed", position, depth>> of the state a
                        \*   push_stack just left; <<"popped", ...>> of the same
                        \*   state once a pop_stack has followed it immediately
  calls,                \* observer: get_and_increment calls made per counter
  frames,               \* observer: <<position, depth>> at each push_stack not
                        \*   yet matched by a pop_stack, oldest first, while the
                        \*   calls have kept the stack within 0..capacity
  driver,               \* the driver decoding this instance's source: what it
                        \*   may pass, what it still has to decode and the step
                        \*   it is at
  peer                  \* the other interpreter instances of the process: the
                        \*   variables above are the members of *this

program == <<instructions_, characters_, string_offsets_,
             output_names_, output_dtypes_, output_which_>>
nav     == <<current_instruction_, instruction_stack_, current_stack_depth_>>
buffers == <<buffers_uint8_, buffers_int64_, buffers_float64_>>
data    == <<buffers_uint8_, buffers_int64_, buffers_float64_, counters_, length_>>
vars    == <<instructions_, characters_, string_offsets_,
             output_names_, output_dtypes_, output_which_,
             buffers_uint8_, buffers_int64_, buffers_float64_,
             current_instruction_, instruction_stack_, current_stack_depth_,
             counters_, length_, op, arg, ret, round_trip, calls, frames,
             driver, peer>>

(***************************************************************************)
(* Bounds of the model.                                                    *)
(***************************************************************************)
\* capacity of instruction_stack_ in the navigation configuration
StackCapacity == 2
\* most elements held by all buffers plus counts handed out by all counters
\* when the driver is free to call anything
MaxItems == 3
\* length_ is explored within -MaxLength .. MaxLength; a decoded source has
\* at most MaxLength top-level entries
MaxLength == 2
\* width of the model's int64_t / uint64_t data values (64 in the build)
Int64Bits == 8

ZeroBased(seq) == [i \in 0..(Len(seq) - 1) |-> seq[i + 1]]

Size(vec) == Cardinality(DOMAIN vec)

(***************************************************************************)
(* Fixed-width integers.                                                   *)
(***************************************************************************)
TwoToBits == 2 ^ Int64Bits
MaxInt64  == (2 ^ (Int64Bits - 1)) - 1
MinInt64  == 0 - (2 ^ (Int64Bits - 1))
MaxUint64 == (2 ^ Int64Bits) - 1

\* the int64_t with the same bit pattern as v taken modulo 2^width
ToInt64(v) == ((v + (2 ^ (Int64Bits - 1))) % TwoToBits) - (2 ^ (Int64Bits - 1))

\* the uint8_t with the same bit pattern as the int8_t x
ToUint8(x) == x % 256

(***************************************************************************)
(* Load-time configurations.  The constructor (declared at json.h:54-62,   *)
(* defined outside this header) fills the program, the symbol table, the   *)
(* output descriptors and the sizes of the buffer, stack and counter       *)
(* vectors from the compiled schema.                                       *)
(***************************************************************************)

\* A record with three keys (the first name repeated, the second name an
\* extension of the first) and two enumerations.
\*   0: key table header, 3 entries follow
\*   1: key symbol 0 "x"  -> instruction 4
\*   2: key symbol 1 "xy" -> instruction 5
\*   3: key symbol 0 "x"  -> instruction 5
\*   4: enumeration over symbols [2, 5) = "A", "B", "C"
\*   5: enumeration over symbols [5, 7) = "A", "AB"
NavConfig ==
  [ instructions |-> ZeroBased(<< 10, 3, 0, 0,
                                  11, 0, 4, 0,
                                  11, 1, 5, 0,
                                  11, 0, 5, 0,
                                   6, 0, 2, 5,
                                   6, 0, 5, 7 >>),
    characters   |-> ZeroBased(<<120, 120, 121, 65, 66, 67, 65, 65, 66>>),
    offsets      |-> ZeroBased(<<0, 1, 3, 4, 5, 6, 7, 9>>),
    names        |-> ZeroBased(<< >>),
    dtypes       |-> ZeroBased(<< >>),
    which        |-> ZeroBased(<< >>),
    uint8        |-> ZeroBased(<< >>),
    int64        |-> ZeroBased(<< >>),
    float64      |-> ZeroBased(<< >>),
    capacity     |-> StackCapacity,
    counters     |-> 0,
    \* "x", "xy", "y", "A", "B", "AB"
    texts        |-> {<<120>>, <<120, 121>>, <<121>>, <<65>>, <<66>>, <<65, 66>>},
    lengths      |-> { },
    strays       |-> FALSE ]

\* Two byte columns, one read out as signed and one as unsigned.
ByteConfig ==
  [ instructions |-> ZeroBased(<<0, 0, 0, 0>>),
    characters   |-> ZeroBased(<< >>),
    offsets      |-> ZeroBased(<<0>>),
    names        |-> ZeroBased(<<"mask", "bytes">>),
    dtypes       |-> ZeroBased(<<"int8", "uint8">>),
    which        |-> ZeroBased(<<1, 0>>),
    uint8        |-> ZeroBased(<< <<>>, <<>> >>),
    int64        |-> ZeroBased(<< >>),
    float64      |-> ZeroBased(<< >>),
    capacity     |-> 1,
    counters     |-> 0,
    texts        |-> { },
    lengths      |-> { },
    strays       |-> FALSE ]

\* Two int64 columns (the second one an output), a float64 column, and an
\* output whose element kind is none of the four the interpreter knows.
NumberConfig ==
  [ instructions |-> ZeroBased(<<0, 0, 0, 0>>),
    characters   |-> ZeroBased(<< >>),
    offsets      |-> ZeroBased(<<0>>),
    names        |-> ZeroBased(<<"x", "y", "z">>),
    dtypes       |-> ZeroBased(<<"int64", "float64", "bool">>),
    which        |-> ZeroBased(<<1, 0, 0>>),
    uint8        |-> ZeroBased(<< >>),
    int64        |-> ZeroBased(<< <<>>, <<>> >>),
    float64      |-> ZeroBased(<< <<>> >>),
    capacity     |-> 1,
    counters     |-> 0,
    texts        |-> { },
    lengths      |-> { },
    strays       |-> FALSE ]

\* Two counters and the top-level length; no column.
CounterConfig ==
  [ instructions |-> ZeroBased(<<0, 0, 0, 0>>),
    characters   |-> ZeroBased(<< >>),
    offsets      |-> ZeroBased(<<0>>),
    names        |-> ZeroBased(<< >>),
    dtypes       |-> ZeroBased(<< >>),
    which        |-> ZeroBased(<< >>),
    uint8        |-> ZeroBased(<< >>),
    int64        |-> ZeroBased(<< >>),
    float64      |-> ZeroBased(<< >>),
    capacity     |-> 1,
    counters     |-> 2,
    texts        |-> {<<65>>},
    lengths      |-> {1, -1},
    strays       |-> FALSE ]

\* A two-instruction program and a stack of one slot, under a driver that
\* does not keep to the contract of the stack.
StackConfig ==
  [ instructions |-> ZeroBased(<<0, 0, 0, 0,
                                 0, 0, 0, 0>>),
    characters   |-> ZeroBased(<< >>),
    offsets      |-> ZeroBased(<<0>>),
    names        |-> ZeroBased(<< >>),
    dtypes       |-> ZeroBased(<< >>),
    which        |-> ZeroBased(<< >>),
    uint8        |-> ZeroBased(<< >>),
    int64        |-> ZeroBased(<< >>),
    float64      |-> ZeroBased(<< >>),
    capacity     |-> 1,
    counters     |-> 0,
    texts        |-> { },
    lengths      |-> { },
    strays       |-> TRUE ]

Configs == {NavConfig, ByteConfig, NumberConfig, CounterConfig, StackConfig}

(***************************************************************************)
(* What the driver may pass.                                               *)
(***************************************************************************)
Texts         == driver.texts
Int8Inputs    == {-1, 100}
Uint8Inputs   == {200}
ManyInputs    == {<<1, 2>>}
Int64Inputs   == driver.int64s
Uint64Inputs  == {3, MaxUint64}
AddInputs     == driver.adds
Float64Inputs == {250, 425}
LengthInputs  == driver.lengths

(***************************************************************************)
(* State after construction.                                               *)
(***************************************************************************)
Constructed(cfg) ==
  /\ instructions_ = cfg.instructions
  /\ characters_ = cfg.characters
  /\ string_offsets_ = cfg.offsets
  /\ output_names_ = cfg.names
  /\ output_dtypes_ = cfg.dtypes
  /\ output_which_ = cfg.which
  /\ buffers_uint8_ = cfg.uint8
  /\ buffers_int64_ = cfg.int64
  /\ buffers_float64_ = cfg.float64
  /\ current_instruction_ = 0
  /\ instruction_stack_ = [d \in 0..(cfg.capacity - 1) |-> 0]
  /\ current_stack_depth_ = 0
  /\ counters_ = [c \in 0..(cfg.counters - 1) |-> 0]
  /\ length_ = 0
  /\ op = "load"
  /\ arg = << >>
  /\ ret = << >>
  /\ round_trip = <<"none", 0, 0>>
  /\ calls = [c \in 0..(cfg.counters - 1) |-> 0]
  /\ frames = [kept |-> TRUE, open |-> << >>]

\* a driver free to call any operation in any order
FreeDriver(cfg) ==
  [ kind |-> "free", texts |-> cfg.texts, lengths |-> cfg.lengths, int64s |-> {7},
    adds |-> {1, MaxInt64}, room |-> MaxItems, strays |-> cfg.strays,
    input |-> << >>, source |-> << >>, step |-> "any" ]

InitConfig(cfg) ==
  /\ Constructed(cfg)
  /\ driver = FreeDriver(cfg)
  /\ peer = << >>

Init == \E cfg \in Configs : InitConfig(cfg)

\* most elements and counts the driver lets the interpreter hold
Room == driver.room

\* the source with the first member of its first entry taken off
DropMember(source) == <<Tail(Head(source))>> \o Tail(source)

\* the driver once the call it has just made has returned: a free driver
\* stays as it is, a driver decoding a source goes on to its next step
DriverAfter(name) ==
  CASE driver.kind = "record" ->
         ( CASE driver.step = "key" -> [driver EXCEPT !.step = "enter"]
             [] driver.step = "enter" -> [driver EXCEPT !.step = "dispatch"]
             [] driver.step = "dispatch" -> [driver EXCEPT !.step = "value"]
             [] driver.step = "value" -> [driver EXCEPT !.step = "leave"]
             [] driver.step = "leave" ->
                  [driver EXCEPT !.source = DropMember(@),
                                 !.step = IF Len(Head(driver.source)) = 1
                                          THEN "end" ELSE "key"]
             [] driver.step = "end" ->
                  [driver EXCEPT !.source = Tail(@), !.step = "key"] )
    [] driver.kind = "list" ->
         ( CASE driver.step = "start" -> [driver EXCEPT !.step = "items"]
             [] driver.step = "items" /\ name = "write_int64" ->
                  [driver EXCEPT !.source = DropMember(@)]
             [] driver.step = "items" /\ name = "pop_stack" ->
                  [driver EXCEPT !.step = "close"]
             [] driver.step = "close" ->
                  [driver EXCEPT !.source = Tail(@), !.step = "start"] )
    [] OTHER -> driver

\* the unmatched pushes once the call has been made; a push at depth =
\* capacity or a pop at depth 0 ends the record
FramesAfter(name) ==
  CASE name = "push_stack" ->
         IF frames.kept /\ current_stack_depth_ \in 0..(Size(instruction_stack_) - 1)
         THEN [frames EXCEPT !.open = Append(@, <<current_instruction_, current_stack_depth_>>)]
         ELSE [kept |-> FALSE, open |-> << >>]
    [] name = "pop_stack" ->
         IF frames.kept /\ current_stack_depth_ \in 1..Size(instruction_stack_)
         THEN [frames EXCEPT !.open = SubSeq(@, 1, Len(@) - 1)]
         ELSE [kept |-> FALSE, open |-> << >>]
    [] OTHER -> frames

\* a call on an interpreter whose length_ is a static member: one length for
\* all instances
Called_static_length(name, args, result) ==
  /\ op' = name
  /\ arg' = args
  /\ ret' = result
  /\ round_trip' =
       IF name = "push_stack"
       THEN <<"pushed", current_instruction_, current_stack_depth_>>
       ELSE IF name = "pop_stack" /\ round_trip[1] = "pushed"
            THEN <<"popped", round_trip[2], round_trip[3]>>
            ELSE <<"none", 0, 0>>
  /\ calls' =
       IF name = "get_and_increment" THEN [calls EXCEPT ![args[1]] = @ + 1] ELSE calls
  /\ frames' = FramesAfter(name)
  /\ driver' = DriverAfter(name)
  /\ peer' = [k \in DOMAIN peer |-> [peer[k] EXCEPT !.length = length_']]

\* what every operation records about its call; a member function reads and
\* writes the members of *this only
Called(name, args, result) ==
  /\ op' = name
  /\ arg' = args
  /\ ret' = result
  /\ round_trip' =
       IF name = "push_stack"
       THEN <<"pushed", current_instruction_, current_stack_depth_>>
       ELSE IF name = "pop_stack" /\ round_trip[1] = "pushed"
            THEN <<"popped", round_trip[2], round_trip[3]>>
            ELSE <<"none", 0, 0>>
  /\ calls' =
       IF name = "get_and_increment" THEN [calls EXCEPT ![args[1]] = @ + 1] ELSE calls
  /\ frames' = FramesAfter(name)
  /\ driver' = DriverAfter(name)
  /\ peer' = peer

(***************************************************************************)
(* Const accessors (json.h:65-92).                                         *)
(***************************************************************************)
NumInstructions == Size(instructions_) \div 4
Positions       == 0..(NumInstructions - 1)
NumSymbols      == Size(string_offsets_) - 1
Capacity        == Size(instruction_stack_)

instruction == instructions_[current_instruction_ * 4]

argument1 == instructions_[current_instruction_ * 4 + 1]

argument2 == instructions_[current_instruction_ * 4 + 2]

argument3 == instructions_[current_instruction_ * 4 + 3]

current_stack_depth ==
  /\ UNCHANGED <<program, nav, data>>
  /\ Called("current_stack_depth", << >>, <<current_stack_depth_>>)

current_instruction ==
  /\ UNCHANGED <<program, nav, data>>
  /\ Called("current_instruction", << >>, <<current_instruction_>>)

\* instruction(), argument1(), argument2(), argument3(): one read of the
\* current instruction's four slots
read_instruction ==
  /\ current_instruction_ \in Positions
  /\ UNCHANGED <<program, nav, data>>
  /\ Called("instruction", << >>, <<instruction, argument1, argument2, argument3>>)

(***************************************************************************)
(* Navigation (json.h:95-115).  No operation checks anything.  The driver  *)
(* keeps the position inside the program.  A push at depth = capacity or   *)
(* depth < 0 stores outside instruction_stack_ (the store is lost to the   *)
(* interpreter's state); a pop that reads outside instruction_stack_ gets  *)
(* an arbitrary position.  Under a driver that strays from the contract    *)
(* of the stack the model follows the depth one step outside 0..capacity   *)
(* on either side.                                                         *)
(***************************************************************************)
InStack(d) == d \in 0..(Capacity - 1)

\* the depths at which the driver calls push_stack, and pop_stack
PushDepths == IF driver.strays THEN (-1)..Capacity ELSE 0..(Capacity - 1)

PopDepths == IF driver.strays THEN 0..(Capacity + 1) ELSE 1..Capacity

step_forward ==
  /\ current_instruction_ + 1 \in Positions
  /\ current_instruction_' = current_instruction_ + 1
  /\ UNCHANGED <<program, data, instruction_stack_, current_stack_depth_>>
  /\ Called("step_forward", << >>, << >>)

step_backward ==
  /\ current_instruction_ - 1 \in Positions
  /\ current_instruction_' = current_instruction_ - 1
  /\ UNCHANGED <<program, data, instruction_stack_, current_stack_depth_>>
  /\ Called("step_backward", << >>, << >>)

\* push_stack that forgets current_stack_depth_++
push_stack_keeps_depth ==
  \E jump_to \in Positions :
    /\ current_stack_depth_ \in PushDepths
    /\ instruction_stack_' =
         IF InStack(current_stack_depth_)
         THEN [instruction_stack_ EXCEPT ![current_stack_depth_] = current_instruction_]
         ELSE instruction_stack_
    /\ current_stack_depth_' = current_stack_depth_
    /\ current_instruction_' = jump_to
    /\ UNCHANGED <<program, data>>
    /\ Called("push_stack", <<jump_to>>, << >>)

\* push_stack that makes room for the frame when the stack is full
push_stack_grows ==
  \E jump_to \in Positions :
    /\ current_stack_depth_ \in 0..Capacity
    /\ instruction_stack_' =
         [d \in 0..(IF InStack(current_stack_depth_) THEN Capacity - 1 ELSE Capacity) |->
            IF d = current_stack_depth_ THEN current_instruction_ ELSE instruction_stack_[d]]
    /\ current_stack_depth_' = current_stack_depth_ + 1
    /\ current_instruction_' = jump_to
    /\ UNCHANGED <<program, data>>
    /\ Called("push_stack", <<jump_to>>, << >>)

\* push_stack that saves the jump target instead of the position it leaves
push_stack_saves_target ==
  \E jump_to \in Positions :
    /\ current_stack_depth_ \in PushDepths
    /\ instruction_stack_' =
         IF InStack(current_stack_depth_)
         THEN [instruction_stack_ EXCEPT ![current_stack_depth_] = jump_to]
         ELSE instruction_stack_
    /\ current_stack_depth_' = current_stack_depth_ + 1
    /\ current_instruction_' = jump_to
    /\ UNCHANGED <<program, data>>
    /\ Called("push_stack", <<jump_to>>, << >>)

push_stack ==
  \E jump_to \in Positions :
    /\ current_stack_depth_ \in PushDepths
    /\ instruction_stack_' =
         IF InStack(current_stack_depth_)
         THEN [instruction_stack_ EXCEPT ![current_stack_depth_] = current_instruction_]
         ELSE instruction_stack_
    /\ current_stack_depth_' = current_stack_depth_ + 1
    /\ current_instruction_' = jump_to
    /\ UNCHANGED <<program, data>>
    /\ Called("push_stack", <<jump_to>>, << >>)

\* pop_stack that reads the slot before it decrements the depth
pop_stack_reads_first ==
  /\ current_stack_depth_ \in PopDepths
  /\ current_stack_depth_' = current_stack_depth_ - 1
  /\ current_instruction_' \in
       IF InStack(current_stack_depth_)
       THEN {instruction_stack_[current_stack_depth_]}
       ELSE Positions
  /\ UNCHANGED <<program, data, instruction_stack_>>
  /\ Called("pop_stack", << >>, << >>)

\* pop_stack that goes back to the oldest saved position
pop_stack_reads_bottom ==
  /\ current_stack_depth_ \in PopDepths
  /\ current_stack_depth_' = current_stack_depth_ - 1
  /\ current_instruction_' \in
       IF InStack(current_stack_depth_ - 1)
       THEN {instruction_stack_[0]}
       ELSE Positions
  /\ UNCHANGED <<program, data, instruction_stack_>>
  /\ Called("pop_stack", << >>, << >>)

pop_stack ==
  /\ current_stack_depth_ \in PopDepths
  /\ current_stack_depth_' = current_stack_depth_ - 1
  /\ current_instruction_' \in
       IF InStack(current_stack_depth_ - 1)
       THEN {instruction_stack_[current_stack_depth_ - 1]}
       ELSE Positions
  /\ UNCHANGED <<program, data, instruction_stack_>>
  /\ Called("pop_stack", << >>, << >>)

(***************************************************************************)
(* Symbol resolution (json.h:118-150).  The text the driver passes is a    *)
(* C string: its characters followed by the terminator 0.                  *)
(***************************************************************************)
CharAt(str, k) == IF k < Len(str) THEN str[k + 1] ELSE 0

\* strncmp(str, &chars[start], n) from character k on: 0 when the first n
\* characters agree (or both strings end before that), else the sign of the
\* first difference
RECURSIVE strncmp_from(_, _, _, _)
strncmp_from(str, start, n, k) ==
  IF k >= n
  THEN 0
  ELSE IF CharAt(str, k) # characters_[start + k]
       THEN (IF CharAt(str, k) < characters_[start + k] THEN -1 ELSE 1)
       ELSE IF CharAt(str, k) = 0
            THEN 0
            ELSE strncmp_from(str, start, n, k + 1)

strncmp(str, start, n) == strncmp_from(str, start, n, 0)

\* the loop of find_enum from symbol i on
RECURSIVE find_enum_from(_, _)
find_enum_from(str, i) ==
  IF ~(i < argument3)
  THEN -1
  ELSE IF strncmp(str, string_offsets_[i], string_offsets_[i + 1] - string_offsets_[i]) = 0
       THEN i - argument2
       ELSE find_enum_from(str, i + 1)

find_enum(str) == find_enum_from(str, argument2)

\* the loop of find_key from instruction i on
RECURSIVE find_key_from(_, _)
find_key_from(str, i) ==
  IF ~(i <= current_instruction_ + argument1)
  THEN -1
  ELSE IF strncmp(str,
                  string_offsets_[instructions_[i * 4 + 1]],
                  string_offsets_[instructions_[i * 4 + 1] + 1]
                    - string_offsets_[instructions_[i * 4 + 1]]) = 0
       THEN instructions_[i * 4 + 2]
       ELSE find_key_from(str, i + 1)

find_key(str) == find_key_from(str, current_instruction_ + 1)

\* every symbol the scan of find_enum can reach is a symbol of the table
EnumRangeLoaded ==
  /\ current_instruction_ \in Positions
  /\ \A i \in argument2..(argument3 - 1) : i \in 0..(NumSymbols - 1)

\* every entry the scan of find_key can reach is an instruction of the
\* program that names a symbol of the table
KeyRegionLoaded ==
  /\ current_instruction_ \in Positions
  /\ \A i \in (current_instruction_ + 1)..(current_instruction_ + argument1) :
       /\ i \in Positions
       /\ instructions_[i * 4 + 1] \in 0..(NumSymbols - 1)

call_find_enum ==
  \E str \in Texts :
    /\ EnumRangeLoaded
    /\ UNCHANGED <<program, nav, data>>
    /\ Called("find_enum", <<str>>, <<find_enum(str)>>)

\* find_key that scans with current_instruction_ itself and leaves it on the
\* last entry when no name matches
call_find_key_moves ==
  \E str \in Texts :
    /\ KeyRegionLoaded
    /\ current_instruction_' =
         IF find_key(str) = -1
         THEN current_instruction_ + argument1
         ELSE current_instruction_
    /\ UNCHANGED <<program, data, instruction_stack_, current_stack_depth_>>
    /\ Called("find_key", <<str>>, <<find_key(str)>>)

call_find_key ==
  \E str \in Texts :
    /\ KeyRegionLoaded
    /\ UNCHANGED <<program, nav, data>>
    /\ Called("find_key", <<str>>, <<find_key(str)>>)

(***************************************************************************)
(* GrowableBuffer<T> (awkward/GrowableBuffer.h, outside this header): an   *)
(* append-only store of one element kind.                                  *)
(***************************************************************************)
GB_append(buf, x) == Append(buf, x)

GB_extend(buf, values, num_items) == buf \o SubSeq(values, 1, num_items)

GB_last(buf) == buf[Len(buf)]

GB_nbytes(buf, width) == Len(buf) * width

\* the elements concatenate() copies to the caller's memory, in order
GB_concatenate(buf) == buf

RECURSIVE TotalLen(_, _)
TotalLen(vec, n) == IF n = 0 THEN 0 ELSE Len(vec[n - 1]) + TotalLen(vec, n - 1)

RECURSIVE TotalCount(_, _)
TotalCount(vec, n) == IF n = 0 THEN 0 ELSE vec[n - 1] + TotalCount(vec, n - 1)

\* elements held by all buffers plus counts handed out by all counters
Items ==
  TotalLen(buffers_uint8_, Size(buffers_uint8_))
    + TotalLen(buffers_int64_, Size(buffers_int64_))
    + TotalLen(buffers_float64_, Size(buffers_float64_))
    + TotalCount(counters_, Size(counters_))

(***************************************************************************)
(* Buffer writes (json.h:153-185).  The driver passes an index of the      *)
(* vector it addresses; no operation checks it.                            *)
(***************************************************************************)
write_int8 ==
  \E index \in DOMAIN buffers_uint8_, x \in Int8Inputs :
    /\ Items + 1 <= Room
    /\ buffers_uint8_' =
         [buffers_uint8_ EXCEPT ![index] = GB_append(@, ToUint8(x))]
    /\ UNCHANGED <<program, nav, buffers_int64_, buffers_float64_, counters_, length_>>
    /\ Called("write_int8", <<index, x>>, << >>)

write_uint8 ==
  \E index \in DOMAIN buffers_uint8_, x \in Uint8Inputs :
    /\ Items + 1 <= Room
    /\ buffers_uint8_' = [buffers_uint8_ EXCEPT ![index] = GB_append(@, x)]
    /\ UNCHANGED <<program, nav, buffers_int64_, buffers_float64_, counters_, length_>>
    /\ Called("write_uint8", <<index, x>>, << >>)

\* write_many_uint8 that puts the new run in front of the old contents
write_many_uint8_in_front ==
  \E index \in DOMAIN buffers_uint8_, values \in ManyInputs :
    \E num_items \in 0..Len(values) :
      /\ Items + num_items <= Room
      /\ buffers_uint8_' =
           [buffers_uint8_ EXCEPT ![index] = SubSeq(values, 1, num_items) \o @]
      /\ UNCHANGED <<program, nav, buffers_int64_, buffers_float64_, counters_, length_>>
      /\ Called("write_many_uint8", <<index, num_items, values>>, << >>)

write_many_uint8 ==
  \E index \in DOMAIN buffers_uint8_, values \in ManyInputs :
    \E num_items \in 0..Len(values) :
      /\ Items + num_items <= Room
      /\ buffers_uint8_' =
           [buffers_uint8_ EXCEPT ![index] = GB_extend(@, values, num_items)]
      /\ UNCHANGED <<program, nav, buffers_int64_, buffers_float64_, counters_, length_>>
      /\ Called("write_many_uint8", <<index, num_items, values>>, << >>)

\* write_int64 that appends to buffer 0 whatever index it is given
write_int64_to_first ==
  \E index \in DOMAIN buffers_int64_, x \in Int64Inputs :
    /\ Items + 1 <= Room
    /\ buffers_int64_' = [buffers_int64_ EXCEPT ![0] = GB_append(@, x)]
    /\ UNCHANGED <<program, nav, buffers_uint8_, buffers_float64_, counters_, length_>>
    /\ Called("write_int64", <<index, x>>, << >>)

write_int64 ==
  \E index \in DOMAIN buffers_int64_, x \in Int64Inputs :
    /\ Items + 1 <= Room
    /\ buffers_int64_' = [buffers_int64_ EXCEPT ![index] = GB_append(@, x)]
    /\ UNCHANGED <<program, nav, buffers_uint8_, buffers_float64_, counters_, length_>>
    /\ Called("write_int64", <<index, x>>, << >>)

\* write_uint64 that stores the largest int64_t for a value above it
write_uint64_saturates ==
  \E index \in DOMAIN buffers_int64_, x \in Uint64Inputs :
    /\ Items + 1 <= Room
    /\ buffers_int64_' =
         [buffers_int64_ EXCEPT ![index] = GB_append(@, IF x > MaxInt64 THEN MaxInt64 ELSE x)]
    /\ UNCHANGED <<program, nav, buffers_uint8_, buffers_float64_, counters_, length_>>
    /\ Called("write_uint64", <<index, x>>, << >>)

write_uint64 ==
  \E index \in DOMAIN buffers_int64_, x \in Uint64Inputs :
    /\ Items + 1 <= Room
    /\ buffers_int64_' = [buffers_int64_ EXCEPT ![index] = GB_append(@, ToInt64(x))]
    /\ UNCHANGED <<program, nav, buffers_uint8_, buffers_float64_, counters_, length_>>
    /\ Called("write_uint64", <<index, x>>, << >>)

\* write_add_int64 that appends the delta itself
write_add_int64_appends_delta ==
  \E index \in DOMAIN buffers_int64_, x \in AddInputs :
    /\ Items + 1 <= Room
    /\ Len(buffers_int64_[index]) > 0
    /\ buffers_int64_' = [buffers_int64_ EXCEPT ![index] = GB_append(@, x)]
    /\ UNCHANGED <<program, nav, buffers_uint8_, buffers_float64_, counters_, length_>>
    /\ Called("write_add_int64", <<index, x>>, << >>)

\* last() + x is an int64_t addition: where the sum leaves the int64 range
\* the build that goes on stores the wrapped sum.  last() is read from a
\* buffer that holds an element.
write_add_int64 ==
  \E index \in DOMAIN buffers_int64_, x \in AddInputs :
    /\ Items + 1 <= Room
    /\ Len(buffers_int64_[index]) > 0
    /\ buffers_int64_' =
         [buffers_int64_ EXCEPT ![index] = GB_append(@, ToInt64(GB_last(@) + x))]
    /\ UNCHANGED <<program, nav, buffers_uint8_, buffers_float64_, counters_, length_>>
    /\ Called("write_add_int64", <<index, x>>, << >>)

\* write_float64 that counts the value it writes as a top-level entry
write_float64_counts ==
  \E index \in DOMAIN buffers_float64_, x \in Float64Inputs :
    /\ Items + 1 <= Room
    /\ buffers_float64_' = [buffers_float64_ EXCEPT ![index] = GB_append(@, x)]
    /\ length_' = length_ + 1
    /\ UNCHANGED <<program, nav, buffers_uint8_, buffers_int64_, counters_>>
    /\ Called("write_float64", <<index, x>>, << >>)

write_float64 ==
  \E index \in DOMAIN buffers_float64_, x \in Float64Inputs :
    /\ Items + 1 <= Room
    /\ buffers_float64_' = [buffers_float64_ EXCEPT ![index] = GB_append(@, x)]
    /\ UNCHANGED <<program, nav, buffers_uint8_, buffers_int64_, counters_, length_>>
    /\ Called("write_float64", <<index, x>>, << >>)

(***************************************************************************)
(* Counters and length (json.h:188-200).                                   *)
(***************************************************************************)
\* get_and_increment that returns ++counters_[index]
get_and_increment_returns_new ==
  \E index \in DOMAIN counters_ :
    /\ Items + 1 <= Room
    /\ counters_' = [counters_ EXCEPT ![index] = @ + 1]
    /\ UNCHANGED <<program, nav, buffers, length_>>
    /\ Called("get_and_increment", <<index>>, <<counters_[index] + 1>>)

get_and_increment ==
  \E index \in DOMAIN counters_ :
    /\ Items + 1 <= Room
    /\ counters_' = [counters_ EXCEPT ![index] = @ + 1]
    /\ UNCHANGED <<program, nav, buffers, length_>>
    /\ Called("get_and_increment", <<index>>, <<counters_[index]>>)

length ==
  /\ UNCHANGED <<program, nav, data>>
  /\ Called("length", << >>, <<length_>>)

\* add_to_length that assigns instead of adding
add_to_length_assigns ==
  \E n \in LengthInputs :
    /\ n \in (0 - MaxLength)..MaxLength
    /\ length_' = n
    /\ UNCHANGED <<program, nav, buffers, counters_>>
    /\ Called("add_to_length", <<n>>, << >>)

add_to_length ==
  \E n \in LengthInputs :
    /\ length_ + n \in (0 - MaxLength)..MaxLength
    /\ length_' = length_ + n
    /\ UNCHANGED <<program, nav, buffers, counters_>>
    /\ Called("add_to_length", <<n>>, << >>)

(***************************************************************************)
(* Output extraction (json.h:206-273).  util::dtype is written as the      *)
(* name of the element kind.                                               *)
(***************************************************************************)
Outputs == DOMAIN output_names_

num_outputs ==
  /\ UNCHANGED <<program, nav, data>>
  /\ Called("num_outputs", << >>, <<Size(output_names_)>>)

output_name ==
  \E i \in Outputs :
    /\ UNCHANGED <<program, nav, data>>
    /\ Called("output_name", <<i>>, <<output_names_[i]>>)

\* output_dtype that prints the tag it finds, known or not
output_dtype_of_tag(i) == output_dtypes_[i]

output_dtype_of(i) ==
  CASE output_dtypes_[i] = "int8" -> "int8"
    [] output_dtypes_[i] = "uint8" -> "uint8"
    [] output_dtypes_[i] = "int64" -> "int64"
    [] output_dtypes_[i] = "float64" -> "float64"
    [] OTHER -> "unknown"

output_dtype ==
  \E i \in Outputs :
    /\ UNCHANGED <<program, nav, data>>
    /\ Called("output_dtype", <<i>>, <<output_dtype_of(i)>>)

\* output_num_items that forgets to divide the byte size by the element width
output_num_items_of_bytes(i) ==
  CASE output_dtypes_[i] = "int8" -> GB_nbytes(buffers_uint8_[output_which_[i]], 1)
    [] output_dtypes_[i] = "uint8" -> GB_nbytes(buffers_uint8_[output_which_[i]], 1)
    [] output_dtypes_[i] = "int64" -> GB_nbytes(buffers_int64_[output_which_[i]], 8)
    [] output_dtypes_[i] = "float64" -> GB_nbytes(buffers_float64_[output_which_[i]], 8)
    [] OTHER -> -1

output_num_items_of(i) ==
  CASE output_dtypes_[i] = "int8" -> GB_nbytes(buffers_uint8_[output_which_[i]], 1)
    [] output_dtypes_[i] = "uint8" -> GB_nbytes(buffers_uint8_[output_which_[i]], 1)
    [] output_dtypes_[i] = "int64" -> GB_nbytes(buffers_int64_[output_which_[i]], 8) \div 8
    [] output_dtypes_[i] = "float64" -> GB_nbytes(buffers_float64_[output_which_[i]], 8) \div 8
    [] OTHER -> -1

output_num_items ==
  \E i \in Outputs :
    /\ UNCHANGED <<program, nav, data>>
    /\ Called("output_num_items", <<i>>, <<output_num_items_of(i)>>)

\* output_fill that always copies buffer 0 of the output's family
output_fill_of_first_buffer(i) ==
  CASE output_dtypes_[i] = "int8" -> GB_concatenate(buffers_uint8_[0])
    [] output_dtypes_[i] = "uint8" -> GB_concatenate(buffers_uint8_[0])
    [] output_dtypes_[i] = "int64" -> GB_concatenate(buffers_int64_[0])
    [] output_dtypes_[i] = "float64" -> GB_concatenate(buffers_float64_[0])
    [] OTHER -> << >>

\* what output_fill stores through external_pointer, in order
output_fill_of(i) ==
  CASE output_dtypes_[i] = "int8" -> GB_concatenate(buffers_uint8_[output_which_[i]])
    [] output_dtypes_[i] = "uint8" -> GB_concatenate(buffers_uint8_[output_which_[i]])
    [] output_dtypes_[i] = "int64" -> GB_concatenate(buffers_int64_[output_which_[i]])
    [] output_dtypes_[i] = "float64" -> GB_concatenate(buffers_float64_[output_which_[i]])
    [] OTHER -> << >>

\* what a cell of the caller's memory holds while nothing has been stored in
\* it: a value no buffer element takes
Untouched == 0 - (4 * (2 ^ Int64Bits))

\* the caller's memory from external_pointer on: room for every element a
\* buffer can hold and one cell after that
Destination == [k \in 1..(MaxItems + 1) |-> Untouched]

\* the caller's memory once elems have been stored from its first cell on
Stored(dest, elems) ==
  [k \in DOMAIN dest |-> IF k <= Len(elems) THEN elems[k] ELSE dest[k]]

\* the call returns nothing; ret records the caller's memory after it
output_fill ==
  \E i \in Outputs :
    /\ UNCHANGED <<program, nav, data>>
    /\ Called("output_fill", <<i>>, <<Stored(Destination, output_fill_of(i))>>)

(***************************************************************************)
(* The interpreter under any driver.                                       *)
(***************************************************************************)
Next ==
  \/ current_stack_depth
  \/ current_instruction
  \/ read_instruction
  \/ step_forward
  \/ step_backward
  \/ push_stack
  \/ pop_stack
  \/ call_find_enum
  \/ call_find_key
  \/ write_int8
  \/ write_uint8
  \/ write_many_uint8
  \/ write_int64
  \/ write_uint64
  \/ write_add_int64
  \/ write_float64
  \/ get_and_increment
  \/ length
  \/ add_to_length
  \/ num_outputs
  \/ output_name
  \/ output_dtype
  \/ output_num_items
  \/ output_fill

Spec == Init /\ [][Next]_vars

(***************************************************************************)
(* A driver decoding a stream of flat records {"x": int64, "y": float64}.  *)
(* The compiled program and the token-to-call mapping are the schema       *)
(* compiler's contract with the driver, outside json.h; every call the     *)
(* driver makes is an operation of json.h above.                           *)
(*   key token:    find_key(name), push_stack(the jump target returned)    *)
(*   value token:  instruction() and argument1() of the handler now        *)
(*                 current, write_int64 or write_float64 to the buffer     *)
(*                 argument1 names, pop_stack                              *)
(*   object end:   add_to_length(1)                                        *)
(***************************************************************************)
\* opcodes of the compiled program
FillInteger    == 4
FillNumber     == 5
KeyTableHeader == 10
KeyTableItem   == 11

\*   0: key table header, 2 entries follow
\*   1: key symbol 0 "x" -> instruction 3
\*   2: key symbol 1 "y" -> instruction 4
\*   3: write the integer value to int64 buffer 1
\*   4: write the number value to float64 buffer 0
RecordConfig ==
  [ instructions |-> ZeroBased(<< KeyTableHeader, 2, 0, 0,
                                  KeyTableItem, 0, 3, 0,
                                  KeyTableItem, 1, 4, 0,
                                  FillInteger, 1, 0, 0,
                                  FillNumber, 0, 0, 0 >>),
    characters   |-> ZeroBased(<<120, 121>>),
    offsets      |-> ZeroBased(<<0, 1, 2>>),
    names        |-> ZeroBased(<<"x", "y">>),
    dtypes       |-> ZeroBased(<<"int64", "float64">>),
    which        |-> ZeroBased(<<1, 0>>),
    uint8        |-> ZeroBased(<< >>),
    int64        |-> ZeroBased(<< <<>>, <<>> >>),
    float64      |-> ZeroBased(<< <<>> >>),
    capacity     |-> 1,
    counters     |-> 0,
    texts        |-> {<<120>>, <<121>>},
    lengths      |-> {1} ]

\* the JSON objects of a source: members <<name, value>> in either order
XValues == {1, 3}
YValues == {250, 425}
Objects ==
  UNION { { << <<<<120>>, a>>, <<<<121>>, b>> >>, << <<<<121>>, b>>, <<<<120>>, a>> >> } :
            a \in XValues, b \in YValues }

Sources == UNION { [1..n -> Objects] : n \in 0..MaxLength }

RecordDriver(source) ==
  [ kind |-> "record", texts |-> RecordConfig.texts, lengths |-> RecordConfig.lengths,
    int64s |-> XValues, adds |-> { }, room |-> 2 * MaxLength, strays |-> FALSE,
    input |-> source, source |-> source, step |-> "key" ]

InitRecord ==
  /\ Constructed(RecordConfig)
  /\ \E source \in Sources : driver = RecordDriver(source)
  /\ peer = << >>

\* the member the driver is decoding
Member == Head(Head(driver.source))

RecordKey ==
  /\ driver.kind = "record" /\ driver.step = "key"
  /\ driver.source # << >>
  /\ call_find_key
  /\ arg' = <<Member[1]>>

RecordEnter ==
  /\ driver.kind = "record" /\ driver.step = "enter"
  /\ ret[1] # -1
  /\ push_stack
  /\ arg' = <<ret[1]>>

RecordDispatch ==
  /\ driver.kind = "record" /\ driver.step = "dispatch"
  /\ read_instruction

RecordInteger ==
  /\ driver.kind = "record" /\ driver.step = "value"
  /\ ret[1] = FillInteger
  /\ write_int64
  /\ arg' = <<ret[2], Member[2]>>

RecordNumber ==
  /\ driver.kind = "record" /\ driver.step = "value"
  /\ ret[1] = FillNumber
  /\ write_float64
  /\ arg' = <<ret[2], Member[2]>>

RecordLeave ==
  /\ driver.kind = "record" /\ driver.step = "leave"
  /\ pop_stack

RecordEnd ==
  /\ driver.kind = "record" /\ driver.step = "end"
  /\ add_to_length
  /\ arg' = <<1>>

NextRecord ==
  \/ RecordKey
  \/ RecordEnter
  \/ RecordDispatch
  \/ RecordInteger
  \/ RecordNumber
  \/ RecordLeave
  \/ RecordEnd

SpecRecord == InitRecord /\ [][NextRecord]_vars

(***************************************************************************)
(* A driver decoding a stream of lists of integers.  As for the record     *)
(* driver, the program and the token-to-call mapping are outside json.h.   *)
(*   list start:  push_stack(the instruction after the list instruction)   *)
(*   item:        write_int64 to the buffer argument1() of the item        *)
(*                handler names                                            *)
(*   list end:    pop_stack, then write_add_int64 of the number of items   *)
(*                the list had to the buffer argument1() of the list       *)
(*                instruction names                                        *)
(***************************************************************************)
VarLengthList == 9

\* longest list of a source
MaxListLen == 2

\*   0: list whose offsets go to int64 buffer 0
\*   1: write the integer item to int64 buffer 1
\* The offsets buffer is loaded holding the offset 0.
ListConfig ==
  [ instructions |-> ZeroBased(<< VarLengthList, 0, 0, 0,
                                  FillInteger, 1, 0, 0 >>),
    characters   |-> ZeroBased(<< >>),
    offsets      |-> ZeroBased(<<0>>),
    names        |-> ZeroBased(<<"offsets", "content">>),
    dtypes       |-> ZeroBased(<<"int64", "int64">>),
    which        |-> ZeroBased(<<0, 1>>),
    uint8        |-> ZeroBased(<< >>),
    int64        |-> ZeroBased(<< <<0>>, <<>> >>),
    float64      |-> ZeroBased(<< >>),
    capacity     |-> 1,
    counters     |-> 0,
    texts        |-> { },
    lengths      |-> { } ]

ItemValues == {1, 7}

Lists == UNION { [1..n -> ItemValues] : n \in 0..MaxListLen }

ListSources == UNION { [1..n -> Lists] : n \in 0..MaxLength }

ListDriver(source) ==
  [ kind |-> "list", texts |-> ListConfig.texts, lengths |-> ListConfig.lengths,
    int64s |-> ItemValues, adds |-> 0..MaxListLen,
    room |-> 1 + (MaxLength * (MaxListLen + 1)), strays |-> FALSE,
    input |-> source, source |-> source, step |-> "start" ]

InitList ==
  /\ Constructed(ListConfig)
  /\ \E source \in ListSources : driver = ListDriver(source)
  /\ peer = << >>

\* lists of the source decoded so far
ListsDone == Len(driver.input) - Len(driver.source)

ListStart ==
  /\ driver.kind = "list" /\ driver.step = "start"
  /\ driver.source # << >>
  /\ push_stack
  /\ arg' = <<current_instruction_ + 1>>

ListItem ==
  /\ driver.kind = "list" /\ driver.step = "items"
  /\ Head(driver.source) # << >>
  /\ write_int64
  /\ arg' = <<argument1, Head(Head(driver.source))>>

ListEnd ==
  /\ driver.kind = "list" /\ driver.step = "items"
  /\ Head(driver.source) = << >>
  /\ pop_stack

ListClose ==
  /\ driver.kind = "list" /\ driver.step = "close"
  /\ write_add_int64
  /\ arg' = <<argument1, Len(driver.input[ListsDone + 1])>>

NextList ==
  \/ ListStart
  \/ ListItem
  \/ ListEnd
  \/ ListClose

SpecList == InitList /\ [][NextList]_vars

(***************************************************************************)
(* Two interpreter instances in one process, each with its own caller.     *)
(* The class has no static member and json.h no global (json.h:276-292):   *)
(* a member function works on the members of the instance it is called on. *)
(* The variables of this module are the members of that instance; the      *)
(* other instance is kept in peer, and Switch makes the other instance the *)
(* one the next call is made on.  Each caller keeps to the contract of     *)
(* the stack.                                                              *)
(***************************************************************************)
\*   0, 1: write the integer value to int64 buffer 0
PairConfig ==
  [ instructions |-> ZeroBased(<< FillInteger, 0, 0, 0,
                                  FillInteger, 0, 0, 0 >>),
    characters   |-> ZeroBased(<< >>),
    offsets      |-> ZeroBased(<<0>>),
    names        |-> ZeroBased(<<"x">>),
    dtypes       |-> ZeroBased(<<"int64">>),
    which        |-> ZeroBased(<<0>>),
    uint8        |-> ZeroBased(<< >>),
    int64        |-> ZeroBased(<< <<>> >>),
    float64      |-> ZeroBased(<< >>),
    capacity     |-> 1,
    counters     |-> 1,
    texts        |-> { },
    lengths      |-> {1} ]

\* the members of the instance the next call is made on, with what is
\* recorded about its counters and its caller
Instance ==
  [ instructions |-> instructions_, characters |-> characters_,
    offsets |-> string_offsets_, names |-> output_names_,
    dtypes |-> output_dtypes_, which |-> output_which_,
    uint8 |-> buffers_uint8_, int64 |-> buffers_int64_, float64 |-> buffers_float64_,
    position |-> current_instruction_, stack |-> instruction_stack_,
    depth |-> current_stack_depth_, counters |-> counters_, length |-> length_,
    calls |-> calls, frames |-> frames, driver |-> driver ]

\* caller 1 writes 7s and caller 2 writes 3s
PairDriver(caller) ==
  [ kind |-> "pair", caller |-> caller,
    texts |-> PairConfig.texts, lengths |-> PairConfig.lengths,
    int64s |-> IF caller = 1 THEN {7} ELSE {3}, adds |-> { }, room |-> 2,
    strays |-> FALSE,
    input |-> << >>, source |-> << >>, step |-> "any" ]

InitPair ==
  /\ Constructed(PairConfig)
  /\ driver = PairDriver(1)
  /\ peer = << [Instance EXCEPT !.driver = PairDriver(2)] >>

\* the next call is made on the other instance
Switch ==
  /\ peer # << >>
  /\ instructions_' = peer[1].instructions
  /\ characters_' = peer[1].characters
  /\ string_offsets_' = peer[1].offsets
  /\ output_names_' = peer[1].names
  /\ output_dtypes_' = peer[1].dtypes
  /\ output_which_' = peer[1].which
  /\ buffers_uint8_' = peer[1].uint8
  /\ buffers_int64_' = peer[1].int64
  /\ buffers_float64_' = peer[1].float64
  /\ current_instruction_' = peer[1].position
  /\ instruction_stack_' = peer[1].stack
  /\ current_stack_depth_' = peer[1].depth
  /\ counters_' = peer[1].counters
  /\ length_' = peer[1].length
  /\ calls' = peer[1].calls
  /\ frames' = peer[1].frames
  /\ driver' = peer[1].driver
  /\ peer' = <<Instance>>
  /\ op' = "switch"
  /\ arg' = << >>
  /\ ret' = << >>
  /\ round_trip' = <<"none", 0, 0>>

NextPair ==
  \/ Switch
  \/ push_stack
  \/ pop_stack
  \/ write_int64
  \/ get_and_increment
  \/ add_to_length

SpecPair == InitPair /\ [][NextPair]_vars

(***************************************************************************)
(* Properties.                                                             *)
(***************************************************************************)

\* the text of symbol i of the table
SymbolText(i) ==
  [k \in 1..(string_offsets_[i + 1] - string_offsets_[i]) |->
     characters_[string_offsets_[i] + k - 1]]

\* C1: find_enum called with the exact text of the symbol at index i of the
\* current instruction's range [argument2, argument3) returns i - argument2,
\* and called with a text that equals no symbol of the range returns -1.
C1_FindEnumExact ==
  op = "find_enum" =>
    /\ \A i \in argument2..(argument3 - 1) :
         SymbolText(i) = arg[1] => ret[1] = i - argument2
    /\ (\A i \in argument2..(argument3 - 1) : SymbolText(i) # arg[1]) => ret[1] = -1

\* the entries of the current key table whose field name is exactly str
KeyEntriesNamed(str) ==
  {i \in (current_instruction_ + 1)..(current_instruction_ + argument1) :
     SymbolText(instructions_[i * 4 + 1]) = str}

Least(S) == CHOOSE i \in S : \A j \in S : i <= j

\* C2: find_key scans the argument1 entries after the current instruction;
\* called with the exact field name of an entry it returns the jump target
\* of the first entry of that name, and called with a name that no entry
\* carries (argument1 = 0 included) it returns -1.
C2_FindKeyExactFirst ==
  op = "find_key" =>
    IF KeyEntriesNamed(arg[1]) = { }
    THEN ret[1] = -1
    ELSE ret[1] = instructions_[Least(KeyEntriesNamed(arg[1])) * 4 + 2]

\* C3: from a state with 0 <= depth < capacity, push_stack(T) followed
\* immediately by pop_stack leaves the position and the depth as they were
\* before the push, for every jump target T.
C3_PushPopRoundTrip ==
  (round_trip[1] = "popped" /\ round_trip[3] \in 0..(Capacity - 1)) =>
    /\ current_instruction_ = round_trip[2]
    /\ current_stack_depth_ = round_trip[3]

\* a pop_stack has just undone a push_stack made at position 3, depth 1
C3_Witness ==
  /\ round_trip = <<"popped", 3, 1>>
  /\ op = "pop_stack"
  /\ Capacity = StackCapacity
  /\ current_instruction_ = 3
  /\ current_stack_depth_ = 1

\* C4 as claimed: after any sequence of calls 0 <= depth <= capacity;
\* push_stack adds exactly 1 to the depth and moves to the jump target,
\* pop_stack takes exactly 1 off the depth and moves to the popped slot.
C4_DepthAlwaysInRange ==
  [][ /\ current_stack_depth_' \in 0..Capacity
      /\ op' = "push_stack" =>
           /\ current_stack_depth_' = current_stack_depth_ + 1
           /\ current_instruction_' = arg'[1]
      /\ op' = "pop_stack" =>
           /\ current_stack_depth_' = current_stack_depth_ - 1
           /\ current_instruction_' = instruction_stack_[current_stack_depth_ - 1]
    ]_vars

\* C4 amended: the same, for calls that push only at depth < capacity and
\* pop only at depth > 0, starting from a depth in 0..capacity; every other
\* operation leaves the depth alone.
C4_DepthInRangeWhenUsedInBounds ==
  [][ ( /\ current_stack_depth_ \in 0..Capacity
        /\ op' = "push_stack" => current_stack_depth_ < Capacity
        /\ op' = "pop_stack" => current_stack_depth_ > 0 )
      =>
      ( /\ current_stack_depth_' \in 0..Capacity
        /\ op' = "push_stack" =>
             /\ current_stack_depth_' = current_stack_depth_ + 1
             /\ current_instruction_' = arg'[1]
        /\ op' = "pop_stack" =>
             /\ current_stack_depth_' = current_stack_depth_ - 1
             /\ current_instruction_' = instruction_stack_[current_stack_depth_ - 1]
        /\ op' \notin {"push_stack", "pop_stack"} =>
             current_stack_depth_' = current_stack_depth_ )
    ]_vars

\* the stack has just been filled to its capacity by a push made in bounds
C4_Witness ==
  /\ op = "push_stack"
  /\ Capacity = StackCapacity
  /\ round_trip = <<"pushed", 2, Capacity - 1>>
  /\ current_stack_depth_ = Capacity
  /\ current_instruction_ = arg[1]

\* C5 as claimed: no operation, add_to_length with any argument included,
\* ever makes length() smaller.
C5_LengthNeverDecreases == [][length_' >= length_]_vars

\* C5 amended: only add_to_length changes length(), and it adds exactly its
\* argument; so length() gets smaller only by an add_to_length call with a
\* negative argument, and nothing resets it.
C5_LengthChangesByAddToLengthOnly ==
  [][ /\ op' # "add_to_length" => length_' = length_
      /\ op' = "add_to_length" => length_' = length_ + arg'[1]
      /\ (op' = "add_to_length" => arg'[1] >= 0) => length_' >= length_
    ]_vars

\* add_to_length(1) has just raised the length to MaxLength
C5_Witness ==
  /\ op = "add_to_length"
  /\ arg = <<1>>
  /\ length_ = MaxLength

\* C6 as claimed: write_add_int64(idx, x) on a buffer [..., v] leaves the
\* elements there and appends exactly one element equal to v + x.
C6_WriteAddAppendsSum ==
  [][ op' = "write_add_int64" =>
        buffers_int64_'[arg'[1]] =
          Append(buffers_int64_[arg'[1]],
                 buffers_int64_[arg'[1]][Len(buffers_int64_[arg'[1]])] + arg'[2])
    ]_vars

\* C6 amended: the same when v + x lies in the int64 range.
C6_WriteAddAppendsSumInRange ==
  [][ ( /\ op' = "write_add_int64"
        /\ buffers_int64_[arg'[1]][Len(buffers_int64_[arg'[1]])] + arg'[2]
             \in MinInt64..MaxInt64 )
      =>
        buffers_int64_'[arg'[1]] =
          Append(buffers_int64_[arg'[1]],
                 buffers_int64_[arg'[1]][Len(buffers_int64_[arg'[1]])] + arg'[2])
    ]_vars

\* write_add_int64(1, 1) has just turned [7, 8] into [7, 8, 9]
C6_Witness ==
  /\ op = "write_add_int64"
  /\ arg = <<1, 1>>
  /\ buffers_int64_[1] = <<7, 8, 9>>

IsPrefix(s, t) == Len(s) <= Len(t) /\ SubSeq(t, 1, Len(s)) = s

\* new is old with exactly one element added at the end, congruent to v
\* modulo m and lying in lo..hi
AppendsOne(old, new, v, m, lo, hi) ==
  /\ Len(new) = Len(old) + 1
  /\ IsPrefix(old, new)
  /\ new[Len(new)] \in lo..hi
  /\ (new[Len(new)] - v) % m = 0

\* C7: no operation changes or removes an element a buffer holds; every
\* write adds its value (its num_items values, in order) after the elements
\* already there, so element i is the i-th value appended and the last
\* element is the one appended most recently.
C7_AppendsKeepOrder ==
  [][ /\ \A b \in DOMAIN buffers_uint8_ : IsPrefix(buffers_uint8_[b], buffers_uint8_'[b])
      /\ \A b \in DOMAIN buffers_int64_ : IsPrefix(buffers_int64_[b], buffers_int64_'[b])
      /\ \A b \in DOMAIN buffers_float64_ :
           IsPrefix(buffers_float64_[b], buffers_float64_'[b])
      /\ op' = "write_int8" =>
           AppendsOne(buffers_uint8_[arg'[1]], buffers_uint8_'[arg'[1]], arg'[2], 256, 0, 255)
      /\ op' = "write_uint8" =>
           buffers_uint8_'[arg'[1]] = Append(buffers_uint8_[arg'[1]], arg'[2])
      /\ op' = "write_many_uint8" =>
           buffers_uint8_'[arg'[1]] =
             buffers_uint8_[arg'[1]] \o SubSeq(arg'[3], 1, arg'[2])
      /\ op' = "write_int64" =>
           buffers_int64_'[arg'[1]] = Append(buffers_int64_[arg'[1]], arg'[2])
      /\ op' = "write_uint64" =>
           AppendsOne(buffers_int64_[arg'[1]], buffers_int64_'[arg'[1]], arg'[2],
                      TwoToBits, MinInt64, MaxInt64)
      /\ op' = "write_add_int64" =>
           AppendsOne(buffers_int64_[arg'[1]], buffers_int64_'[arg'[1]],
                      buffers_int64_[arg'[1]][Len(buffers_int64_[arg'[1]])] + arg'[2],
                      TwoToBits, MinInt64, MaxInt64)
      /\ op' = "write_float64" =>
           buffers_float64_'[arg'[1]] = Append(buffers_float64_[arg'[1]], arg'[2])
    ]_vars

\* write_int8(0, -1) then write_many_uint8(0, 2, [1, 2])
C7_Witness ==
  /\ op = "write_many_uint8"
  /\ arg = <<0, 2, <<1, 2>>>>
  /\ buffers_uint8_[0] = <<255, 1, 2>>

\* C8: the k-th get_and_increment(i) since load returns k - 1, whatever was
\* called in between, and leaves every other counter as it was (so two
\* calls in a row never return the same value).
C8_CounterSequence ==
  [][ op' = "get_and_increment" =>
        /\ ret'[1] = calls'[arg'[1]] - 1
        /\ \A j \in DOMAIN counters_ : j # arg'[1] => counters_'[j] = counters_[j]
    ]_vars

\* the second get_and_increment(0), with a get_and_increment(1) made as well
C8_Witness ==
  /\ op = "get_and_increment"
  /\ arg = <<0>>
  /\ ret = <<1>>
  /\ calls = ZeroBased(<<2, 1>>)

\* C9: only step_forward, step_backward, push_stack and pop_stack change
\* the position; every other operation leaves position and depth alone.
C9_OnlyNavigationMoves ==
  [][ op' \notin {"step_forward", "step_backward", "push_stack", "pop_stack"} =>
        /\ current_instruction_' = current_instruction_
        /\ current_stack_depth_' = current_stack_depth_
    ]_vars

\* a failed key lookup made in the key table header, one frame deep
C9_Witness ==
  /\ op = "find_key"
  /\ arg = << <<121>> >>
  /\ ret = <<-1>>
  /\ argument1 = 3
  /\ current_instruction_ = 0
  /\ current_stack_depth_ = 1

\* C10: output_num_items(i) is the byte size of the buffer bound to output
\* i divided by 8 for an int64 or float64 output and the byte size itself
\* for an int8 or uint8 output, which is the number of elements that buffer
\* holds.
C10_OutputNumItems ==
  /\ \A i \in Outputs :
       /\ output_dtypes_[i] \in {"int8", "uint8"} =>
            /\ output_num_items_of(i) = GB_nbytes(buffers_uint8_[output_which_[i]], 1)
            /\ output_num_items_of(i) = Len(buffers_uint8_[output_which_[i]])
       /\ output_dtypes_[i] = "int64" =>
            /\ output_num_items_of(i) = GB_nbytes(buffers_int64_[output_which_[i]], 8) \div 8
            /\ output_num_items_of(i) = Len(buffers_int64_[output_which_[i]])
       /\ output_dtypes_[i] = "float64" =>
            /\ output_num_items_of(i) = GB_nbytes(buffers_float64_[output_which_[i]], 8) \div 8
            /\ output_num_items_of(i) = Len(buffers_float64_[output_which_[i]])
  /\ op = "output_num_items" => ret[1] = output_num_items_of(arg[1])

\* the int64 output, bound to buffer 1, reports 2 while buffer 0 holds 1
C10_Witness ==
  /\ op = "output_num_items"
  /\ arg = <<0>>
  /\ ret = <<2>>
  /\ output_dtypes_[0] = "int64"
  /\ output_which_[0] = 1
  /\ Len(buffers_int64_[1]) = 2
  /\ Len(buffers_int64_[0]) = 1

\* the buffer bound to output i, for an output of one of the four kinds
BoundBuffer(i) ==
  CASE output_dtypes_[i] \in {"int8", "uint8"} -> buffers_uint8_[output_which_[i]]
    [] output_dtypes_[i] = "int64" -> buffers_int64_[output_which_[i]]
    [] output_dtypes_[i] = "float64" -> buffers_float64_[output_which_[i]]

KnownKinds == {"int8", "uint8", "int64", "float64"}

\* C11: for an output i of kind int8, uint8, int64 or float64,
\* output_fill(i, dest) stores in dest exactly output_num_items(i) elements,
\* the whole contents of the buffer bound to i in order, stores nothing
\* after them, and changes no state of the interpreter; filling again gives
\* the same destination contents.
C11_OutputFill ==
  [][ (op' = "output_fill" /\ output_dtypes_[arg'[1]] \in KnownKinds) =>
        /\ output_num_items_of(arg'[1]) = Len(BoundBuffer(arg'[1]))
        /\ \A k \in 1..Len(BoundBuffer(arg'[1])) : ret'[1][k] = BoundBuffer(arg'[1])[k]
        /\ \A k \in (Len(BoundBuffer(arg'[1])) + 1)..Len(ret'[1]) : ret'[1][k] = Untouched
        /\ UNCHANGED <<program, nav, data>>
        /\ (op = "output_fill" /\ arg = arg') => ret' = ret
    ]_vars

\* output "x" (int64, bound to buffer 1) has just been filled
\* with [7, 8] while buffer 0 holds something else
C11_Witness ==
  /\ op = "output_fill"
  /\ arg = <<0>>
  /\ output_dtypes_[0] = "int64"
  /\ output_which_[0] = 1
  /\ buffers_int64_[1] = <<7, 8>>
  /\ buffers_int64_[0] = <<3>>
  /\ ret[1][1] = 7
  /\ ret[1][2] = 8
  /\ ret[1][3] = Untouched

\* C12: for an output whose element kind is none of int8, uint8, int64,
\* float64, output_dtype returns "unknown", output_num_items returns -1 and
\* output_fill stores nothing in the destination; each of the three calls
\* completes and changes no state of the interpreter.
C12_UnknownKindFallback ==
  [][ ( /\ op' \in {"output_dtype", "output_num_items", "output_fill"}
        /\ output_dtypes_[arg'[1]] \notin KnownKinds )
      =>
      ( /\ op' = "output_dtype" => ret' = <<"unknown">>
        /\ op' = "output_num_items" => ret' = <<-1>>
        /\ op' = "output_fill" => \A k \in DOMAIN ret'[1] : ret'[1][k] = Untouched
        /\ UNCHANGED <<program, nav, data>> )
    ]_vars

\* output "z", of a kind the interpreter does not know, has just been filled
\* while the buffers its binding could name hold elements
C12_Witness ==
  /\ op = "output_fill"
  /\ arg = <<2>>
  /\ output_dtypes_[2] = "bool"
  /\ buffers_int64_[output_which_[2]] = <<7>>
  /\ buffers_float64_[output_which_[2]] = <<250>>
  /\ ret[1][1] = Untouched

\* the values the members named name carry in the source, in source order
RECURSIVE MemberValues(_, _)
MemberValues(object, name) ==
  IF object = << >>
  THEN << >>
  ELSE (IF Head(object)[1] = name THEN <<Head(object)[2]>> ELSE << >>)
         \o MemberValues(Tail(object), name)

RECURSIVE FieldValues(_, _)
FieldValues(source, name) ==
  IF source = << >>
  THEN << >>
  ELSE MemberValues(Head(source), name) \o FieldValues(Tail(source), name)

\* the first output of the given name
OutputNamed(name) == Least({i \in Outputs : output_names_[i] = name})

\* C13: once the record driver has decoded all n objects of its source,
\* output "x" holds the x values in source order, output "y" holds the y
\* values in source order and length() is n, whatever the order of the keys
\* inside each object; while it decodes, the outputs hold the values of the
\* members decoded so far.
C13_FlatRecordDecode ==
  driver.kind = "record" =>
    /\ driver.source = << >> =>
          /\ BoundBuffer(OutputNamed("x")) = FieldValues(driver.input, <<120>>)
          /\ BoundBuffer(OutputNamed("y")) = FieldValues(driver.input, <<121>>)
          /\ length_ = Len(driver.input)
    /\ IsPrefix(BoundBuffer(OutputNamed("x")), FieldValues(driver.input, <<120>>))
    /\ IsPrefix(BoundBuffer(OutputNamed("y")), FieldValues(driver.input, <<121>>))
    /\ length_ = Len(driver.input) - Len(driver.source)

\* {"x":1,"y":2.5} then {"y":4.25,"x":3} decoded to x = [1,3], y = [2.5,4.25]
C13_Witness ==
  /\ driver.kind = "record"
  /\ driver.input = << << <<<<120>>, 1>>, <<<<121>>, 250>> >>,
                       << <<<<121>>, 425>>, <<<<120>>, 3>> >> >>
  /\ driver.source = << >>
  /\ op = "add_to_length"
  /\ buffers_int64_[1] = <<1, 3>>
  /\ buffers_float64_[0] = <<250, 425>>
  /\ length_ = 2

\* [0, n1, n1 + n2, ...] for lists of lengths n1, n2, ...
RECURSIVE PrefixSums(_)
PrefixSums(lists) ==
  IF lists = << >>
  THEN <<0>>
  ELSE Append(PrefixSums(SubSeq(lists, 1, Len(lists) - 1)),
              PrefixSums(SubSeq(lists, 1, Len(lists) - 1))[Len(lists)]
                + Len(lists[Len(lists)]))

NonDecreasing(seq) == \A k \in 1..(Len(seq) - 1) : seq[k] <= seq[k + 1]

\* C14: with the offsets buffer starting as [0], after each list the list
\* driver has decoded the offsets buffer holds the prefix sums
\* [0, n1, n1 + n2, ...] of the lengths of the lists decoded so far, the
\* position and the depth are those before the list, and the offsets never
\* decrease.
C14_NestedListOffsets ==
  driver.kind = "list" =>
    /\ buffers_int64_[0] = PrefixSums(SubSeq(driver.input, 1, ListsDone))
    /\ NonDecreasing(buffers_int64_[0])
    /\ driver.step = "start" =>
          /\ current_instruction_ = 0
          /\ current_stack_depth_ = 0

\* [] then [7] decoded: the offsets are [0, 0, 1]
C14_Witness ==
  /\ driver.kind = "list"
  /\ driver.input = << << >>, <<7>> >>
  /\ driver.source = << >>
  /\ op = "write_add_int64"
  /\ buffers_int64_[0] = <<0, 0, 1>>
  /\ buffers_int64_[1] = <<7>>
  /\ current_instruction_ = 0
  /\ current_stack_depth_ = 0

\* C15: no operation changes the instruction program, the characters or the
\* offsets of the symbol table, the output descriptors (names, kinds, buffer
\* bindings) or the capacity of the stack; the numbers of buffers and of
\* counters stay as loaded too.  What changes is buffer contents, counters,
\* depth, saved slots, position and length.
C15_LoadTimeDataImmutable ==
  [][ /\ instructions_' = instructions_
      /\ characters_' = characters_
      /\ string_offsets_' = string_offsets_
      /\ output_names_' = output_names_
      /\ output_dtypes_' = output_dtypes_
      /\ output_which_' = output_which_
      /\ DOMAIN instruction_stack_' = DOMAIN instruction_stack_
      /\ DOMAIN buffers_uint8_' = DOMAIN buffers_uint8_
      /\ DOMAIN buffers_int64_' = DOMAIN buffers_int64_
      /\ DOMAIN buffers_float64_' = DOMAIN buffers_float64_
      /\ DOMAIN counters_' = DOMAIN counters_
    ]_vars

\* the navigation program as loaded, after two frames have been pushed from
\* positions 3 and 4 and the second has been popped
C15_Witness ==
  /\ op = "pop_stack"
  /\ instruction_stack_ = ZeroBased(<<3, 4>>)
  /\ current_stack_depth_ = 1
  /\ current_instruction_ = 4
  /\ instructions_ = NavConfig.instructions
  /\ characters_ = NavConfig.characters
  /\ string_offsets_ = NavConfig.offsets
  /\ Capacity = NavConfig.capacity

\* C16: with two instances, a call on one instance leaves every member of
\* the other instance as it was (buffers, position, depth, stack slots,
\* counters, length and the load-time data), under every interleaving of
\* the two callers; so each instance goes through the states its own calls
\* alone take it through.
C16_InstanceIsolation ==
  [][ IF op' = "switch"
      THEN peer' = <<Instance>> /\ <<Instance'>> = peer
      ELSE peer' = peer /\ Instance'.driver.caller = Instance.driver.caller
    ]_vars

\* caller 2 has just added to the length of its instance, which holds [3];
\* the instance of caller 1 holds [7, 7], a pushed frame and length 2
C16_Witness ==
  /\ op = "add_to_length"
  /\ driver.kind = "pair" /\ driver.caller = 2
  /\ buffers_int64_[0] = <<3>>
  /\ counters_[0] = 1
  /\ length_ = 1
  /\ current_stack_depth_ = 0
  /\ peer[1].driver.caller = 1
  /\ peer[1].int64[0] = <<7, 7>>
  /\ peer[1].counters[0] = 0
  /\ peer[1].length = 2
  /\ peer[1].depth = 1
  /\ peer[1].position = 1

\* the element buffer new has after the elements of old, when it has
\* exactly one
Appended(old, new) ==
  IF Len(new) = Len(old) + 1 /\ IsPrefix(old, new) THEN <<new[Len(new)]>> ELSE << >>

\* C17: write_uint64(idx, x) appends x when x < 2^63 and x - 2^64
\* otherwise; write_int8(idx, x) appends x when x >= 0 and x + 256
\* otherwise; write_add_int64(idx, x) appends the value of the int64 range
\* that is last + x modulo 2^64.  (2^64 and 2^63 are TwoToBits and
\* MaxInt64 + 1 at the width of the model.)
C17_BitPatternWrites ==
  [][ /\ op' = "write_uint64" =>
           Appended(buffers_int64_[arg'[1]], buffers_int64_'[arg'[1]]) =
             <<IF arg'[2] < MaxInt64 + 1 THEN arg'[2] ELSE arg'[2] - TwoToBits>>
      /\ op' = "write_int8" =>
           Appended(buffers_uint8_[arg'[1]], buffers_uint8_'[arg'[1]]) =
             <<IF arg'[2] >= 0 THEN arg'[2] ELSE arg'[2] + 256>>
      /\ op' = "write_add_int64" =>
           Appended(buffers_int64_[arg'[1]], buffers_int64_'[arg'[1]]) =
             <<CHOOSE v \in MinInt64..MaxInt64 :
                 (v - (buffers_int64_[arg'[1]][Len(buffers_int64_[arg'[1]])] + arg'[2]))
                   % TwoToBits = 0>>
    ]_vars

\* write_uint64 of the largest uint64_t has just appended -1 after a 7
C17_Witness ==
  /\ op = "write_uint64"
  /\ arg = <<0, MaxUint64>>
  /\ buffers_int64_[0] = <<7, -1>>

\* C18: while the calls never push at depth = capacity and never pop at
\* depth 0, each pop_stack goes back to the position (and the depth) at
\* which the most recent push_stack not yet popped was called, whatever
\* steps, lookups, writes and nested push/pop pairs came in between; the
\* pushes not yet popped are as many as the depth, so a balanced sequence of
\* pushes and pops ends at the position and depth before its first push.
C18_LifoDiscipline ==
  [][ /\ (op' = "pop_stack" /\ frames'.kept) =>
           /\ current_instruction_' = frames.open[Len(frames.open)][1]
           /\ current_stack_depth_' = frames.open[Len(frames.open)][2]
      /\ frames'.kept => Len(frames'.open) = current_stack_depth_'
    ]_vars

\* frames pushed at positions 2 and 3; after the inner frame was popped
\* (back to 3) a step forward was made, and the outer pop has gone back to 2
C18_Witness ==
  /\ op = "pop_stack"
  /\ frames = [kept |-> TRUE, open |-> << >>]
  /\ instruction_stack_ = ZeroBased(<<2, 3>>)
  /\ current_instruction_ = 2
  /\ current_stack_depth_ = 0
  /\ Capacity = StackCapacity

\* the buffers of one family other than buffer index are as they were, and
\* buffer index has grown by n elements
GrowsOnly(old, new, index, n) ==
  /\ DOMAIN new = DOMAIN old
  /\ \A b \in DOMAIN old : b # index => new[b] = old[b]
  /\ Len(new[index]) = Len(old[index]) + n
  /\ IsPrefix(old[index], new[index])

\* C19: write_int8, write_uint8 and write_many_uint8 change only byte
\* buffer index, write_int64, write_uint64 and write_add_int64 only int64
\* buffer index, write_float64 only float64 buffer index, growing it by one
\* element (num_items elements for write_many_uint8); get_and_increment
\* changes only its counter and add_to_length only the length.  Each leaves
\* every other buffer, the counters, the length, the position, the depth
\* and the stack slots unchanged.
C19_WriteFrame ==
  [][ /\ op' \in {"write_int8", "write_uint8"} =>
           /\ GrowsOnly(buffers_uint8_, buffers_uint8_', arg'[1], 1)
           /\ UNCHANGED <<buffers_int64_, buffers_float64_, counters_, length_, nav>>
      /\ op' = "write_many_uint8" =>
           /\ GrowsOnly(buffers_uint8_, buffers_uint8_', arg'[1], arg'[2])
           /\ UNCHANGED <<buffers_int64_, buffers_float64_, counters_, length_, nav>>
      /\ op' \in {"write_int64", "write_uint64", "write_add_int64"} =>
           /\ GrowsOnly(buffers_int64_, buffers_int64_', arg'[1], 1)
           /\ UNCHANGED <<buffers_uint8_, buffers_float64_, counters_, length_, nav>>
      /\ op' = "write_float64" =>
           /\ GrowsOnly(buffers_float64_, buffers_float64_', arg'[1], 1)
           /\ UNCHANGED <<buffers_uint8_, buffers_int64_, counters_, length_, nav>>
      /\ op' = "get_and_increment" =>
           /\ DOMAIN counters_' = DOMAIN counters_
           /\ \A c \in DOMAIN counters_ : c # arg'[1] => counters_'[c] = counters_[c]
           /\ counters_'[arg'[1]] # counters_[arg'[1]]
           /\ UNCHANGED <<buffers, length_, nav>>
      /\ op' = "add_to_length" =>
           /\ length_' = length_ + arg'[1]
           /\ UNCHANGED <<buffers, counters_, nav>>
    ]_vars

\* write_float64(0, 4.25) has just grown the float64 buffer to [2.5, 4.25]
\* one frame deep, with a 7 in int64 buffer 1
C19_Witness ==
  /\ op = "write_float64"
  /\ arg = <<0, 425>>
  /\ buffers_float64_[0] = <<250, 425>>
  /\ buffers_int64_[1] = <<7>>
  /\ buffers_int64_[0] = << >>
  /\ current_stack_depth_ = 1

====
